---- MODULE Spec2Model ----
(***************************************************************************)
(* Cross-process log aggregation of angr-management                        *)
(* (angrmanagement/data/log.py): the per-process forwarder                 *)
(* (AMQueueHandler, install_queue_handler), the shared multiprocessing     *)
(* queue, the QueueListener thread with its LogDumpHandler, the atexit     *)
(* shutdown hook, and the LogTimeStamp formatting cache.                   *)
(***************************************************************************)
EXTENDS Integers, Sequences, FiniteSets, TLC

\* ------------------------------------------------------------------ bounds
\* Number of initialize() calls explored.
MaxInit == 2
\* Number of worker processes explored.
MaxWorkers == 1
\* Total number of log events emitted, over all processes.
MaxEmit == 2
\* Capacity of the queue's semaphore: Queue() has maxsize 0, which
\* multiprocessing turns into SEM_VALUE_MAX items in flight.
MaxQueue == 2
\* Number of reads of one timestamp explored.
MaxReads == 3
\* Longest jump history explored, and the number of distinct addresses.
MaxHist == 3
MaxAddr == 3

\* --------------------------------------------------------------- constants
\* The process that calls initialize().
Main == 0
Procs == 0 .. MaxWorkers
Workers == 1 .. MaxWorkers
Queues == 1 .. MaxInit

\* What a caller can hand to initialize(level): the default logging.NOTSET,
\* or (Python being duck-typed) an Instance object.
NOTSET == "NOTSET"
InstanceObj == "Instance"
LevelArgs == {NOTSET, InstanceObj}

\* The two handler types that can sit in logging.root.handlers.
AMQueueHandler(q) == [type |-> "AMQueueHandler", queue |-> q]
OtherHandler == [type |-> "Other", queue |-> 0]

\* QueueListener._sentinel, and a log record number n of process p.
Sentinel == [src |-> -1, n |-> 0]
Rec(p, k) == [src |-> p, n |-> k]
NoRec == [src |-> -2, n |-> 0]

VARIABLES
    handlers,   \* [Procs -> Seq(handler)]: logging.root.handlers of each process
    alive,      \* the processes that exist
    hooks,      \* Initializer's registered (install_queue_handler, queue) pairs
    atexitHooks,\* the listeners whose stop is registered with atexit
    nq,         \* number of queues (= listeners = initialize() calls) so far
    buf,        \* [Queues -> [Procs -> Seq]]: each process's feeder buffer
    pipe,       \* [Queues -> Seq]: the queue's shared pipe
    lpc,        \* [Queues -> position of the listener thread]
    cur,        \* [Queues -> the record the listener is handling]
    inst,       \* [Queues -> LogDumpHandler.instance of the listener's handler]
    stopSt,     \* [Queues -> progress of listener.stop()]
    sink,       \* instance.log: the Log Sink
    emitted,    \* [Procs -> number of log events emitted]
    dropped,    \* whether handleError() ever swallowed a record
    emitErr,    \* whether an emission ever raised into its caller
    conf,       \* Conf.log_timestamp_format
    stamp,      \* one LogTimeStamp: [ts, cache_key, cache_str]
    readLog,    \* the reads of str(stamp): [fmt, str] each
    computes,   \* strftime calls since the configured pattern last changed
    notified,   \* the payloads of the am_event notifications issued so far
    jh,         \* one JumpHistory: [history, pos]
    jhRet,      \* what the last backtrack() or forwardstep() returned
    jhLast      \* the last JumpHistory call: [op, addr, before]

logvars == <<handlers, alive, hooks, atexitHooks, nq, buf, pipe, lpc, cur, inst,
             stopSt, sink, emitted, dropped, emitErr, notified>>
tsvars == <<conf, stamp, readLog, computes>>
jhvars == <<jh, jhRet, jhLast>>
vars == <<logvars, tsvars, jhvars>>

\* ----------------------------------------------------------------- helpers
RECURSIVE SumLen(_, _)
SumLen(f, S) ==
    IF S = {} THEN 0
    ELSE LET p == CHOOSE x \in S : TRUE
         IN Len(f[p]) + SumLen(f, S \ {p})

RECURSIVE SumNat(_, _)
SumNat(f, S) ==
    IF S = {} THEN 0
    ELSE LET p == CHOOSE x \in S : TRUE
         IN f[p] + SumNat(f, S \ {p})

\* Items put and not yet got: what the queue's semaphore counts.
InFlight(b, pp, q) == SumLen(b[q], Procs) + Len(pp[q])

\* Queue.put_nowait: the semaphore is acquired without blocking.
CanPut(b, pp, q) == InFlight(b, pp, q) < MaxQueue

\* isinstance(i, AMQueueHandler)
IsForwarder(h) == h.type = "AMQueueHandler"

HasForwarder(chain) == \E i \in DOMAIN chain : IsForwarder(chain[i])

ForwarderCount(chain) == Cardinality({i \in DOMAIN chain : IsForwarder(chain[i])})

\* install_queue_handler without its isinstance guard.
install_queue_handler_blind(chain, q) == <<AMQueueHandler(q)>> \o chain

\* install_queue_handler with append() in place of insert(0, ...).
install_queue_handler_append(chain, q) ==
    IF ~HasForwarder(chain) THEN Append(chain, AMQueueHandler(q)) ELSE chain

\* install_queue_handler(queue) applied to a process's root handlers.
install_queue_handler(chain, q) ==
    IF ~HasForwarder(chain) THEN <<AMQueueHandler(q)>> \o chain ELSE chain

\* Initializer.initialize() in a new worker: every registered hook, in order.
RECURSIVE RunHooks(_, _)
RunHooks(hs, chain) ==
    IF hs = <<>> THEN chain
    ELSE RunHooks(Tail(hs), install_queue_handler(chain, Head(hs)))

\* QueueHandler.emit with the try/except around enqueue left out.
EnqueueOutcomeRaising(full) == IF full THEN "raised" ELSE "enqueued"

\* QueueHandler.emit: enqueue with put_nowait; any exception goes to
\* handleError, which reports it and returns.
EnqueueOutcome(full) == IF full THEN "dropped" ELSE "enqueued"

\* One forwarder handling one record in process p; st = [buf, dropped, err].
QueueHandlerEmit(q, p, rec, st) ==
    LET o == EnqueueOutcome(~CanPut(st.buf, pipe, q))
    IN  CASE o = "enqueued" -> [st EXCEPT !.buf[q][p] = Append(@, rec)]
          [] o = "dropped"  -> [st EXCEPT !.dropped = TRUE]
          [] OTHER          -> [st EXCEPT !.err = TRUE]

\* Logger.callHandlers: the record is handed to every handler of the chain.
RECURSIVE CallHandlers(_, _, _, _)
CallHandlers(chain, p, rec, st) ==
    IF chain = <<>> THEN st
    ELSE CallHandlers(Tail(chain), p, rec,
                      IF IsForwarder(Head(chain))
                      THEN QueueHandlerEmit(Head(chain).queue, p, rec, st)
                      ELSE st)

\* self.instance.log: an attribute only an Instance has.
HasLog(x) == x = InstanceObj

\* The feeder thread writes the oldest buffered item to the back of the pipe.
FeedLIFO(pp, item) == <<item>> \o pp

FeedPipe(pp, item) == Append(pp, item)

TotalEmitted == SumNat(emitted, Procs)

\* A handler that puts the new record in front of the older ones.
SinkInsertFront(log, rec) == <<rec>> \o log

\* self.instance.log.append(log_record)
SinkAppend(log, rec) == Append(log, rec)

\* A worker whose process-creation hooks never run.
WorkerChainNoHooks(strategy, parentChain, hs) ==
    IF strategy = "fork" THEN parentChain ELSE <<>>

\* The root handlers of a new worker when its own logic starts: what the
\* creation strategy leaves it (fork: the parent's chain; spawn: nothing),
\* after the registered hooks have run.
WorkerChain(strategy, parentChain, hs) ==
    RunHooks(hs, IF strategy = "fork" THEN parentChain ELSE <<>>)

\* ------------------------------------------------------------- JumpHistory
\* A value no address equals: Python's None.
None == -1

\* The addresses a view can jump to.
Addrs == 1 .. MaxAddr

\* JumpHistory.__init__
JumpHistory == [history |-> <<>>, pos |-> 0]

\* Python's h[:n]: the first n items, all of them when n > len(h), and all
\* but the last -n when n < 0.
Slice(h, n) ==
    LET k == IF n >= 0 THEN (IF n < Len(h) THEN n ELSE Len(h))
             ELSE (IF Len(h) + n > 0 THEN Len(h) + n ELSE 0)
    IN  SubSeq(h, 1, k)

\* Python's h[i]: a negative i counts from the end.
PyIndex(h, i) == IF i >= 0 THEN h[i + 1] ELSE h[Len(h) + i + 1]

\* JumpHistory.trim
trim(o) == [o EXCEPT !.history = Slice(o.history, o.pos + 1)]

\* jump_to without the trim of the forward history.
jump_to_notrim(o, addr) ==
    IF o.history = <<>> \/ PyIndex(o.history, -1) # addr
    THEN [history |-> Append(o.history, addr), pos |-> Len(o.history)]
    ELSE o

\* JumpHistory.jump_to
jump_to(o, addr) ==
    LET t == IF o.pos # Len(o.history) - 1 THEN trim(o) ELSE o
    IN  IF t.history = <<>> \/ PyIndex(t.history, -1) # addr
        THEN [history |-> Append(t.history, addr), pos |-> Len(t.history)]
        ELSE t

\* What backtrack() and forwardstep() return at position p.
AtPos(o, p) == IF p < Len(o.history) THEN PyIndex(o.history, p) ELSE None

\* backtrack with `>= 0` in place of `> 0`.
backtrack_below(o) ==
    LET p == IF o.pos >= 0 THEN o.pos - 1 ELSE o.pos
    IN  [obj |-> [o EXCEPT !.pos = p], ret |-> AtPos(o, p)]

\* JumpHistory.backtrack: the object after the call and the value returned.
backtrack(o) ==
    LET p == IF o.pos > 0 THEN o.pos - 1 ELSE o.pos
    IN  [obj |-> [o EXCEPT !.pos = p], ret |-> AtPos(o, p)]

\* forwardstep with `< len` in place of `< len - 1`.
forwardstep_beyond(o) ==
    LET p == IF o.pos < Len(o.history) THEN o.pos + 1 ELSE o.pos
    IN  [obj |-> [o EXCEPT !.pos = p], ret |-> AtPos(o, p)]

\* JumpHistory.forwardstep: the object after the call and the value returned.
forwardstep(o) ==
    LET p == IF o.pos < Len(o.history) - 1 THEN o.pos + 1 ELSE o.pos
    IN  [obj |-> [o EXCEPT !.pos = p], ret |-> AtPos(o, p)]

\* `record is self._sentinel` in QueueListener._monitor.
IsSentinel(item) == item = Sentinel

\* A stop() that does not wait for the thread.
ThreadEndedNoJoin(pcv) == TRUE

\* self._thread.join() returns once the listener thread is no longer alive.
ThreadEnded(pcv) == pcv \in {"dead", "stopped"}

\* ------------------------------------------------------------ LogTimeStamp
\* Display patterns are sequences of strftime directives; a formatted string
\* is the sequence of the fields they select.
Patterns == {<<"H", "M">>, <<"M", "S">>, <<"S">>}
DefaultFormat == <<"H", "M">>
Instants == {0, 61, 3725}
NoneKey == <<"None">>
NoneStr == <<-1>>

Field(ts, d) ==
    CASE d = "H" -> (ts \div 3600) % 24
      [] d = "M" -> (ts \div 60) % 60
      [] OTHER   -> ts % 60

\* self._ts.strftime(pattern)
Strftime(ts, pat) == [i \in DOMAIN pat |-> Field(ts, pat[i])]

\* LogTimeStamp.__init__
LogTimeStamp(unix_timestamp) ==
    [ts |-> unix_timestamp, cache_key |-> NoneKey, cache_str |-> NoneStr]

\* A __str__ that reuses whatever string is cached.
LogTimeStampStrStale(o, fmt) ==
    IF o.cache_str = NoneStr THEN [o EXCEPT !.cache_str = Strftime(o.ts, fmt)] ELSE o

\* `Conf.log_timestamp_format != self._cache_key`
Recomputes(o, fmt) == fmt # o.cache_key

\* LogTimeStamp.__str__: the object after the call; the call returns its
\* cache_str.
LogTimeStampStr(o, fmt) ==
    IF Recomputes(o, fmt) THEN [o EXCEPT !.cache_str = Strftime(o.ts, fmt)] ELSE o

StopStarted == \E q \in Queues : stopSt[q] # "no"

\* -------------------------------------------------------------------- Init
\* Before initialize(): the main process's root logger carries one handler of
\* another type, no queue, no listener and no hook exists.
InitLog ==
    /\ handlers = [p \in Procs |-> IF p = Main THEN <<OtherHandler>> ELSE <<>>]
    /\ alive = {Main}
    /\ hooks = <<>>
    /\ atexitHooks = <<>>
    /\ nq = 0
    /\ buf = [q \in Queues |-> [p \in Procs |-> <<>>]]
    /\ pipe = [q \in Queues |-> <<>>]
    /\ lpc = [q \in Queues |-> "none"]
    /\ cur = [q \in Queues |-> NoRec]
    /\ inst = [q \in Queues |-> "none"]
    /\ stopSt = [q \in Queues |-> "no"]
    /\ sink = <<>>
    /\ emitted = [p \in Procs |-> 0]
    /\ dropped = FALSE
    /\ emitErr = FALSE
    /\ notified = <<>>

Init ==
    /\ InitLog
    /\ jh = JumpHistory
    /\ jhRet = None
    /\ jhLast = [op |-> "init", addr |-> None, before |-> JumpHistory]
    /\ conf = DefaultFormat
    /\ stamp = LogTimeStamp(0)
    /\ readLog = <<>>
    /\ computes = 0

\* ----------------------------------------------------------------- actions
\* initialize(level), called in the main process.
Initialize(level) ==
    /\ nq < MaxInit
    /\ ~StopStarted
    /\ LET q == nq + 1
       IN  /\ nq' = q
           /\ hooks' = Append(hooks, q)
           /\ handlers' = [handlers EXCEPT ![Main] = install_queue_handler(@, q)]
           /\ inst' = [inst EXCEPT ![q] = level]
           /\ atexitHooks' = Append(atexitHooks, q)
           /\ lpc' = [lpc EXCEPT ![q] = "wait"]
    /\ UNCHANGED <<tsvars, jhvars, notified, alive, buf, pipe, cur, stopSt, sink, emitted, dropped, emitErr>>

\* A worker process is created (fork: it inherits the parent's root handlers;
\* spawn: it starts with none) and runs the registered hooks before its own
\* logic.
CreateWorker(strategy) ==
    /\ nq >= 1
    /\ ~StopStarted
    /\ LET w == Cardinality(alive)
       IN  /\ w \in Workers
           /\ alive' = alive \cup {w}
           /\ handlers' = [handlers EXCEPT ![w] =
                  WorkerChain(strategy, handlers[Main], hooks)]
    /\ UNCHANGED <<tsvars, jhvars, notified, hooks, atexitHooks, nq, buf, pipe, lpc, cur, inst, stopSt,
                   sink, emitted, dropped, emitErr>>

\* A log event is emitted in process p, after initialize().
Emit(p) ==
    /\ p \in alive
    /\ nq >= 1
    /\ TotalEmitted < MaxEmit
    /\ LET rec == Rec(p, emitted[p] + 1)
           st == CallHandlers(handlers[p], p, rec,
                              [buf |-> buf, dropped |-> dropped, err |-> emitErr])
       IN  /\ buf' = st.buf
           /\ dropped' = st.dropped
           /\ emitErr' = st.err
    /\ emitted' = [emitted EXCEPT ![p] = @ + 1]
    /\ UNCHANGED <<tsvars, jhvars, notified, handlers, alive, hooks, atexitHooks, nq, pipe, lpc, cur, inst,
                   stopSt, sink>>

\* The queue's feeder thread of process p moves one item into the pipe.
Feeder(q, p) ==
    /\ buf[q][p] # <<>>
    /\ pipe' = [pipe EXCEPT ![q] = FeedPipe(@, Head(buf[q][p]))]
    /\ buf' = [buf EXCEPT ![q][p] = Tail(@)]
    /\ UNCHANGED <<tsvars, jhvars, notified, handlers, alive, hooks, atexitHooks, nq, lpc, cur, inst,
                   stopSt, sink, emitted, dropped, emitErr>>

\* QueueListener._monitor: dequeue(True); the sentinel ends the thread.
ListenerDequeue(q) ==
    /\ lpc[q] = "wait"
    /\ pipe[q] # <<>>
    /\ pipe' = [pipe EXCEPT ![q] = Tail(@)]
    /\ IF IsSentinel(Head(pipe[q]))
       THEN lpc' = [lpc EXCEPT ![q] = "stopped"] /\ cur' = cur
       ELSE lpc' = [lpc EXCEPT ![q] = "emit"] /\
            cur' = [cur EXCEPT ![q] = Head(pipe[q])]
    /\ UNCHANGED <<tsvars, jhvars, notified, handlers, alive, hooks, atexitHooks, nq, buf, inst, stopSt,
                   sink, emitted, dropped, emitErr>>

\* LogDumpHandler.emit up to self.instance.log.append(log_record); an
\* AttributeError leaves _monitor, which catches queue.Empty only.
ListenerAppend(q) ==
    /\ lpc[q] = "emit"
    /\ IF HasLog(inst[q])
       THEN /\ sink' = SinkAppend(sink, cur[q])
            /\ lpc' = [lpc EXCEPT ![q] = "notify"]
            /\ cur' = cur
       ELSE /\ lpc' = [lpc EXCEPT ![q] = "dead"]
            /\ cur' = [cur EXCEPT ![q] = NoRec]
            /\ sink' = sink
    /\ UNCHANGED <<tsvars, jhvars, notified, handlers, alive, hooks, atexitHooks, nq, buf, pipe, inst,
                   stopSt, emitted, dropped, emitErr>>

\* self.instance.log.am_event(log_record=log_record): the subscribers run on
\* the listener thread; one that raises ends the thread.
ListenerNotify(q) ==
    /\ lpc[q] = "notify"
    /\ \E ok \in BOOLEAN :
          lpc' = [lpc EXCEPT ![q] = IF ok THEN "wait" ELSE "dead"]
    /\ notified' = Append(notified, cur[q])
    /\ cur' = [cur EXCEPT ![q] = NoRec]
    /\ UNCHANGED <<tsvars, jhvars, handlers, alive, hooks, atexitHooks, nq, buf, pipe, inst,
                   stopSt, sink, emitted, dropped, emitErr>>

\* atexit runs the registered listener.stop hooks, last registered first.
\* stop() begins with enqueue_sentinel(): put_nowait(None), which raises
\* queue.Full out of stop() when the semaphore is exhausted.
StopEnqueue(q) ==
    /\ q \in 1 .. nq
    /\ stopSt[q] = "no"
    /\ \A r \in (q + 1) .. nq : stopSt[r] \in {"done", "raised"}
    /\ IF CanPut(buf, pipe, q)
       THEN /\ buf' = [buf EXCEPT ![q][Main] = Append(@, Sentinel)]
            /\ stopSt' = [stopSt EXCEPT ![q] = "joining"]
       ELSE /\ buf' = buf
            /\ stopSt' = [stopSt EXCEPT ![q] = "raised"]
    /\ UNCHANGED <<tsvars, jhvars, notified, handlers, alive, hooks, atexitHooks, nq, pipe, lpc, cur, inst,
                   sink, emitted, dropped, emitErr>>

\* stop() continues with self._thread.join(), which returns once the thread
\* has ended.
StopJoin(q) ==
    /\ stopSt[q] = "joining"
    /\ ThreadEnded(lpc[q])
    /\ stopSt' = [stopSt EXCEPT ![q] = "done"]
    /\ UNCHANGED <<tsvars, jhvars, notified, handlers, alive, hooks, atexitHooks, nq, buf, pipe, lpc, cur,
                   inst, sink, emitted, dropped, emitErr>>

Next ==
    \/ \E level \in LevelArgs : Initialize(level)
    \/ \E s \in {"fork", "spawn"} : CreateWorker(s)
    \/ \E p \in Procs : Emit(p)
    \/ \E q \in Queues, p \in Procs : Feeder(q, p)
    \/ \E q \in Queues : ListenerDequeue(q)
    \/ \E q \in Queues : ListenerAppend(q)
    \/ \E q \in Queues : ListenerNotify(q)
    \/ \E q \in Queues : StopEnqueue(q)
    \/ \E q \in Queues : StopJoin(q)

Spec == Init /\ [][Next]_vars

\* A step of a feeder thread, of a listener thread, or the return of a
\* stop() whose thread has ended.
Deliver ==
    \/ \E q \in Queues, p \in Procs : Feeder(q, p)
    \/ \E q \in Queues : ListenerDequeue(q)
    \/ \E q \in Queues : ListenerAppend(q)
    \/ \E q \in Queues : ListenerNotify(q)
    \/ \E q \in Queues : StopJoin(q)

\* The feeder threads and the listener threads keep being scheduled and the
\* subscribers return: such a step is not postponed forever.
Fairness == WF_vars(Deliver)

SpecFair == Spec /\ Fairness

\* ----------------------------------------------------- LogTimeStamp actions
InitTS ==
    /\ InitLog
    /\ jh = JumpHistory
    /\ jhRet = None
    /\ jhLast = [op |-> "init", addr |-> None, before |-> JumpHistory]
    /\ conf \in Patterns
    /\ \E t \in Instants : stamp = LogTimeStamp(t)
    /\ readLog = <<>>
    /\ computes = 0

\* The user changes Conf.log_timestamp_format.
SetFormat(f) ==
    /\ f # conf
    /\ conf' = f
    /\ computes' = 0
    /\ UNCHANGED <<logvars, jhvars, stamp, readLog>>

\* str(timestamp), as the log view does when it renders a record.
ReadStr ==
    /\ Len(readLog) < MaxReads
    /\ stamp' = LogTimeStampStr(stamp, conf)
    /\ readLog' = Append(readLog, [fmt |-> conf, str |-> stamp'.cache_str])
    /\ computes' = IF Recomputes(stamp, conf) THEN computes + 1 ELSE computes
    /\ UNCHANGED <<logvars, jhvars, conf>>

NextTS ==
    \/ \E f \in Patterns : SetFormat(f)
    \/ ReadStr

SpecTS == InitTS /\ [][NextTS]_vars

\* ------------------------------------------------------ JumpHistory actions
\* DisassemblyView.jump_to / display_function: self._jump_history.jump_to(addr)
JumpTo(addr) ==
    /\ Len(jump_to(jh, addr).history) <= MaxHist
    /\ jh' = jump_to(jh, addr)
    /\ jhLast' = [op |-> "jump_to", addr |-> addr, before |-> jh]
    /\ UNCHANGED <<logvars, tsvars, jhRet>>

\* JumpHistory.trim called on its own.
Trim ==
    /\ jh' = trim(jh)
    /\ jhLast' = [op |-> "trim", addr |-> None, before |-> jh]
    /\ UNCHANGED <<logvars, tsvars, jhRet>>

\* DisassemblyView.jump_back: addr = self._jump_history.backtrack()
Backtrack ==
    /\ jh' = backtrack(jh).obj
    /\ jhRet' = backtrack(jh).ret
    /\ jhLast' = [op |-> "backtrack", addr |-> None, before |-> jh]
    /\ UNCHANGED <<logvars, tsvars>>

\* DisassemblyView.jump_forward: addr = self._jump_history.forwardstep()
Forwardstep ==
    /\ jh' = forwardstep(jh).obj
    /\ jhRet' = forwardstep(jh).ret
    /\ jhLast' = [op |-> "forwardstep", addr |-> None, before |-> jh]
    /\ UNCHANGED <<logvars, tsvars>>

NextJH ==
    \/ \E a \in Addrs : JumpTo(a)
    \/ Trim
    \/ Backtrack
    \/ Forwardstep

SpecJH == Init /\ [][NextJH]_vars

\* ------------------------------------------------------------------ claims
Occ(seq, r) == Cardinality({i \in DOMAIN seq : seq[i] = r})

RECURSIVE SumOcc(_, _, _)
SumOcc(f, S, r) ==
    IF S = {} THEN 0
    ELSE LET x == CHOOSE y \in S : TRUE
         IN Occ(f[x], r) + SumOcc(f, S \ {x}, r)

RECURSIVE SumBufOcc(_, _)
SumBufOcc(S, r) ==
    IF S = {} THEN 0
    ELSE LET q == CHOOSE y \in S : TRUE
         IN SumOcc(buf[q], Procs, r) + SumBufOcc(S \ {q}, r)

\* Copies of record r held anywhere between emission and the Sink.
Copies(r) ==
    SumBufOcc(Queues, r) + SumOcc(pipe, Queues, r)
    + Cardinality({q \in Queues : lpc[q] = "emit" /\ cur[q] = r}) + Occ(sink, r)

EmittedRecs == {Rec(p, k) : p \in Procs, k \in 1 .. MaxEmit} \cap
               {r \in [src : Procs, n : 1 .. MaxEmit] : r.n <= emitted[r.src]}

\* No feeder and no listener step is left to take.
Settled ==
    \A q \in Queues :
        /\ \A p \in Procs : buf[q][p] = <<>>
        /\ lpc[q] \notin {"emit", "notify"}
        /\ pipe[q] = <<>> \/ lpc[q] # "wait"

\* Every registered listener.stop hook has returned.
ShutDown == nq >= 1 /\ \A q \in 1 .. nq : stopSt[q] = "done"

\* C1: however many times install_queue_handler has run in a process (once
\* per initialize() in the main process, once per registered hook in a
\* worker), its root handlers hold exactly one AMQueueHandler, and no emitted
\* record exists twice in the channel and the Sink together.
C1_IdempotentInstall ==
    /\ \A p \in alive : (p # Main \/ nq >= 1) => ForwarderCount(handlers[p]) = 1
    /\ \A r \in EmittedRecs : Copies(r) <= 1

\* install_queue_handler has run twice in the main process and a record the
\* main process emitted is in the Sink.
C1_Witness ==
    /\ nq >= 2
    /\ ForwarderCount(handlers[Main]) = 1
    /\ \E i \in DOMAIN sink : sink[i].src = Main

\* C2: every record logged after initialize() is eventually in the Sink
\* (unless the channel was full or shutdown began).
C2_EventualDelivery ==
    \A p \in Procs, k \in 1 .. MaxEmit :
        (emitted[p] >= k) ~> (Occ(sink, Rec(p, k)) >= 1 \/ dropped \/ StopStarted)

\* C3: with the channel never full and no shutdown, once nothing is left to
\* deliver the Sink holds every emitted record exactly once and nothing else.
C3_NoLossNoDuplication ==
    (Settled /\ ~dropped /\ ~StopStarted) =>
        /\ Len(sink) = TotalEmitted
        /\ \A r \in EmittedRecs : Occ(sink, r) = 1

\* C4: two records of one process are in the Sink in the order the process
\* emitted them.
C4_PerProducerOrder ==
    \A i, j \in DOMAIN sink :
        (i < j /\ sink[i].src = sink[j].src) => sink[i].n < sink[j].n

\* The Sink holds two records of one process.
C4_Witness ==
    \E i, j \in DOMAIN sink : i < j /\ sink[i].src = sink[j].src

C6_CachePolicy ==
    /\ readLog # <<>> => stamp.cache_key = readLog[Len(readLog)].fmt
    /\ computes <= 1

\* C7: every read returned the instant formatted under the pattern
\* configured at that read.
C7_CacheCoherence ==
    \A i \in DOMAIN readLog : readLog[i].str = Strftime(stamp.ts, readLog[i].fmt)

\* Two consecutive reads under different patterns returned different strings.
C7_Witness ==
    \E i \in DOMAIN readLog :
        /\ i > 1
        /\ readLog[i].fmt # readLog[i - 1].fmt
        /\ readLog[i].str # readLog[i - 1].str

\* C8: an exception while a record is processed does not end the listener
\* thread.
C8_ListenerSurvives == \A q \in Queues : lpc[q] # "dead"

C10_EmitNeverBlocksNorRaises ==
    /\ ~emitErr
    /\ \A p \in alive : (nq >= 1 /\ TotalEmitted < MaxEmit) => ENABLED Emit(p)

\* An emission met a full channel and its record was dropped.
C10_Witness == dropped /\ ~emitErr

\* The queue the main process's forwarder is bound to.
MainChannel ==
    LET i == CHOOSE k \in DOMAIN handlers[Main] : IsForwarder(handlers[Main][k])
    IN  handlers[Main][i].queue

\* C11: a worker created after initialize(), by fork or by spawn, has when
\* its own logic starts exactly one forwarder, bound to the queue that
\* initialize() created and the main process forwards to.
C11_WorkerForwarder ==
    \A w \in alive \ {Main} :
        /\ ForwarderCount(handlers[w]) = 1
        /\ \A i \in DOMAIN handlers[w] :
               IsForwarder(handlers[w][i]) =>
                   /\ handlers[w][i].queue \in 1 .. nq
                   /\ handlers[w][i].queue = MainChannel
                   /\ lpc[handlers[w][i].queue] # "none"

\* A spawned worker exists while two hooks are registered: its chain is the
\* one forwarder.
C11_Witness ==
    /\ nq = 2
    /\ \E w \in alive \ {Main} : handlers[w] = <<AMQueueHandler(1)>>

\* C12: install on a chain without a forwarder puts one new forwarder, bound
\* to the given queue, at index 0 and keeps the others in their order; on a
\* chain that has a forwarder, whatever its queue, it changes nothing. An
\* existing process's chain changes in no other way.
C12_InstallEffectFrame ==
    /\ [][\A l \in LevelArgs :
            Initialize(l) =>
                IF HasForwarder(handlers[Main])
                THEN handlers' = handlers
                ELSE /\ handlers'[Main] = <<AMQueueHandler(nq + 1)>> \o handlers[Main]
                     /\ \A p \in Procs \ {Main} : handlers'[p] = handlers[p]]_vars
    /\ [][\A p \in alive :
            handlers'[p] # handlers[p] =>
                /\ ~HasForwarder(handlers[p])
                /\ Tail(handlers'[p]) = handlers[p]
                /\ IsForwarder(Head(handlers'[p]))]_vars

\* The main process's chain after two installs with different queues: the
\* forwarder of the first in front of the handler that was there before.
C12_Witness ==
    /\ nq = 2
    /\ handlers[Main] = <<AMQueueHandler(1), OtherHandler>>

\* C13: the Sink only grows at its end, and every record the listener
\* dequeued is appended to it when the listener processes it.
C13_SinkEqualsDequeueHistory ==
    [][/\ Len(sink') >= Len(sink)
       /\ SubSeq(sink', 1, Len(sink)) = sink
       /\ \A q \in Queues : ListenerAppend(q) => sink' = Append(sink, cur[q])]_vars

\* C14: while the subscribers are notified of a record, that record is the
\* last element of the Sink; the notifications issued so far are, in order,
\* the records of the Sink, one each, the last one possibly still pending.
C14_AppendThenNotify ==
    /\ \A q \in Queues :
           lpc[q] = "notify" => (sink # <<>> /\ sink[Len(sink)] = cur[q])
    /\ Len(notified) + Cardinality({q \in Queues : lpc[q] = "notify"}) = Len(sink)
    /\ notified = SubSeq(sink, 1, Len(notified))

\* The second record has been appended and its notification is running.
C14_Witness ==
    /\ lpc[1] = "notify"
    /\ Len(sink) = 2
    /\ Len(notified) = 1

\* C15: the Sink changes only in the listener thread's append; an emission,
\* in any process and also while the subscribers are being notified, leaves
\* the Sink as it is; at most one listener thread is inside
\* LogDumpHandler.emit at a time.
C15_SingleWriter ==
    /\ [](Cardinality({q \in Queues : lpc[q] \in {"emit", "notify"}}) <= 1)
    /\ [][sink' # sink => \E q \in Queues : lpc[q] = "emit" /\ lpc'[q] = "notify"]_vars
    /\ [][\A p \in Procs : Emit(p) => sink' = sink]_vars

\* Two listeners hold the same Instance, a notification is running, and a
\* record of the main process waits in the channel.
C15_Witness ==
    /\ nq = 2
    /\ inst[1] = InstanceObj /\ inst[2] = InstanceObj
    /\ lpc[1] = "notify"
    /\ buf[1][Main] # <<>>

NoAdjacentEqual(h) == \A i \in 1 .. Len(h) - 1 : h[i] # h[i + 1]

\* C16: a non-empty history has 0 <= _pos <= len - 1 and an empty one has
\* _pos = 0; backtrack and forwardstep return None only on an empty history
\* and otherwise the entry at the position they leave.
C16_PositionInvariant ==
    /\ jh.history # <<>> => (0 <= jh.pos /\ jh.pos <= Len(jh.history) - 1)
    /\ jh.history = <<>> => jh.pos = 0
    /\ jhLast.op \in {"backtrack", "forwardstep"} =>
           IF jh.history = <<>> THEN jhRet = None
           ELSE jhRet # None /\ jhRet = jh.history[jh.pos + 1]

\* backtrack was called at the first entry of a history of two or more.
C16_Witness ==
    /\ jhLast.op = "backtrack"
    /\ jhLast.before.pos = 0
    /\ Len(jh.history) >= 2
    /\ jhRet = jh.history[1]

\* C17: after jump_to(addr) the position is the last entry, the last entry
\* is addr, the entries up to the previous position are as they were and
\* those after it are gone; the history never holds two equal neighbours.
C17_JumpDiscardsForward ==
    /\ NoAdjacentEqual(jh.history)
    /\ jhLast.op = "jump_to" =>
           LET old == jhLast.before
               kept == Slice(old.history, old.pos + 1)
           IN  /\ jh.pos = Len(jh.history) - 1
               /\ jh.history[Len(jh.history)] = jhLast.addr
               /\ SubSeq(jh.history, 1, Len(kept)) = kept
               /\ Len(jh.history) <= Len(kept) + 1
               /\ jh.history = kept \/ jh.history = Append(kept, jhLast.addr)

\* jump_to was called with forward history present and appended an address.
C17_Witness ==
    /\ jhLast.op = "jump_to"
    /\ jhLast.before.pos < Len(jhLast.before.history) - 1
    /\ Len(jh.history) = jhLast.before.pos + 2

\* C18: backtrack and forwardstep leave the list of addresses as it is; with
\* _pos > 0 backtrack then forwardstep comes back to the same _pos and
\* returns the address that was current, and likewise forwardstep then
\* backtrack with _pos < len - 1; backtrack at the first entry and
\* forwardstep at the last keep _pos and return the current address.
C18_BackForwardRoundTrip ==
    /\ jhLast.op \in {"backtrack", "forwardstep"} =>
           jh.history = jhLast.before.history
    /\ (jhLast.op = "backtrack" /\ jhLast.before.pos > 0) =>
           /\ forwardstep(jh).obj = jhLast.before
           /\ forwardstep(jh).ret = PyIndex(jhLast.before.history, jhLast.before.pos)
    /\ (jhLast.op = "forwardstep" /\
        jhLast.before.pos < Len(jhLast.before.history) - 1) =>
           /\ backtrack(jh).obj = jhLast.before
           /\ backtrack(jh).ret = PyIndex(jhLast.before.history, jhLast.before.pos)
    /\ (jhLast.op = "backtrack" /\ jhLast.before.pos = 0 /\ jh.history # <<>>) =>
           jh.pos = 0 /\ jhRet = jh.history[1]
    /\ (jhLast.op = "forwardstep" /\ jh.history # <<>> /\
        jhLast.before.pos = Len(jhLast.before.history) - 1) =>
           jh.pos = jhLast.before.pos /\ jhRet = jh.history[jh.pos + 1]

\* forwardstep was called at the last entry of a history of two or more.
C18_Witness ==
    /\ jhLast.op = "forwardstep"
    /\ Len(jh.history) >= 2
    /\ jhLast.before.pos = Len(jh.history) - 1
    /\ jhRet = jh.history[Len(jh.history)]

====
